---- MODULE Spec2Model ----
(***************************************************************************)
(* Model of the Nautilus FFI library (src/src/nautilus-server/src/lib.rs): *)
(* the keypair boxes and C strings it hands across the boundary, the       *)
(* attestation driver session, and the two intent-message signing entry    *)
(* points with their BCS and JSON encodings.                               *)
(*                                                                         *)
(* Text is a sequence of one-character strings, bytes are 0..255, and a    *)
(* u64 / usize is four 16-bit limbs, most significant first, so that the   *)
(* full width of timestamp_ms and payload_len is kept.                     *)
(***************************************************************************)
EXTENDS Integers, Sequences, FiniteSets, TLC

(* ------------------------------ bounds --------------------------------- *)

\* Number of addresses the allocator can hand out for keypair boxes.
MaxHandles == 2

\* Number of addresses the allocator can hand out for C strings.
MaxStrs == 2

(* --------------------------- pointers, fds ----------------------------- *)

\* The null pointer; every address the allocator returns differs from it.
NULL == 0

HandlePtrs == 1..MaxHandles

StrPtrs == 1..MaxStrs

\* File descriptors open("/dev/nsm") can return; the lowest unused one is returned.
Fds == {3, 4}

(* ------------------------ 64-bit unsigned values ----------------------- *)

Limb == 2^16

U64Zero == <<0, 0, 0, 0>>

ToU64(n) == <<0, 0, n \div Limb, n % Limb>>

U64Gt(a, b) ==
  \E i \in 1..4 : a[i] > b[i] /\ \A j \in 1..(i - 1) : a[j] = b[j]

\* The value of a u64 that fits 31 bits.
U64Low(a) == a[3] * Limb + a[4]

\* Quotient and remainder of a u64 by ten, by long division over the limbs.
U64DivMod10(a) ==
  LET n1 == a[1]
      n2 == (n1 % 10) * Limb + a[2]
      n3 == (n2 % 10) * Limb + a[3]
      n4 == (n3 % 10) * Limb + a[4]
  IN  [q |-> <<n1 \div 10, n2 \div 10, n3 \div 10, n4 \div 10>>, r |-> n4 % 10]

(* ------------------------------- text ---------------------------------- *)

\* The byte CString::new rejects.
NUL == "NUL"

DecDigits == <<"0", "1", "2", "3", "4", "5", "6", "7", "8", "9">>

HexDigits == <<"0", "1", "2", "3", "4", "5", "6", "7", "8", "9", "a", "b", "c", "d", "e", "f">>

RECURSIVE Itoa(_)
\* Decimal text of a non-zero u64, most significant digit first (itoa, as serde_json writes integers).
Itoa(a) ==
  IF a = U64Zero THEN <<>>
  ELSE LET d == U64DivMod10(a) IN Itoa(d.q) \o <<DecDigits[d.r + 1]>>

JsonU64(a) == IF a = U64Zero THEN <<"0">> ELSE Itoa(a)

\* JSON string of text that needs no escaping (hex digits, identifiers).
JsonStr(t) == <<"\"">> \o t \o <<"\"">>

RECURSIVE JsonByteElems(_)
JsonByteElems(b) ==
  IF Len(b) = 0 THEN <<>>
  ELSE IF Len(b) = 1 THEN JsonU64(ToU64(b[1]))
  ELSE JsonU64(ToU64(b[1])) \o <<",">> \o JsonByteElems(Tail(b))

\* serde_bytes::ByteBuf through serde_json: serialize_bytes writes an array of numbers.
JsonByteBuf(b) == <<"[">> \o JsonByteElems(b) \o <<"]">>

JsonField(name, value) == JsonStr(name) \o <<":">> \o value

\* fastcrypto Hex::encode: two lowercase digits per byte, no prefix.
HexEncode(b) ==
  [i \in 1..(2 * Len(b)) |->
     IF i % 2 = 1 THEN HexDigits[(b[(i + 1) \div 2] \div 16) + 1]
     ELSE HexDigits[(b[i \div 2] % 16) + 1]]

(* ------------------------------ Ed25519 -------------------------------- *)

\* Secret seeds Ed25519KeyPair::generate can draw.
Keys == {1, 2}

\* The 32-byte public key of a keypair.
Public(sk) == [i \in 1..32 |-> (sk * 83 + i * 7) % 256]

RECURSIVE Digest(_, _)
Digest(h, msg) ==
  IF Len(msg) = 0 THEN h
  ELSE Digest((h * 31 + Head(msg) + 1) % 65521, Tail(msg))

\* The 64-byte deterministic signature of msg under the keypair.
Sign(sk, msg) ==
  LET d == Digest(sk * 1009 + Len(msg), msg)
  IN  [i \in 1..64 |-> (d + (d \div 256) * i + sk * i * i) % 256]

(* -------------------------------- BCS ---------------------------------- *)

\* bcs::MAX_SEQUENCE_LENGTH = 2^31 - 1, the longest sequence bcs::to_bytes accepts.
MAX_SEQUENCE_LENGTH == <<0, 0, 2^15 - 1, 2^16 - 1>>

RECURSIVE Uleb128(_)
Uleb128(n) ==
  IF n < 128 THEN <<n>> ELSE <<128 + (n % 128)>> \o Uleb128(n \div 128)

\* Variant: only the low 32 bits of the u64 are written, the rest is zero.
BcsU64Narrow(a) ==
  <<a[4] % 256, a[4] \div 256, a[3] % 256, a[3] \div 256, 0, 0, 0, 0>>

\* A u64 in BCS: eight bytes, least significant first.
BcsU64(a) ==
  <<a[4] % 256, a[4] \div 256, a[3] % 256, a[3] \div 256,
    a[2] % 256, a[2] \div 256, a[1] % 256, a[1] \div 256>>

\* enum IntentScope { ProcessData = 0 }: the variant's name and its position in the enum.
ProcessData ==
  [variant |-> <<"P", "r", "o", "c", "e", "s", "s", "D", "a", "t", "a">>, index |-> 0]

\* A unit variant in BCS: its index as ULEB128.
BcsIntentScope(scope) == Uleb128(scope.index)

\* A byte sequence (Vec<u8>) in BCS: its length as ULEB128, then the bytes;
\* an error when the length exceeds MAX_SEQUENCE_LENGTH.
BcsVecU8(data) ==
  IF U64Gt(data.len, MAX_SEQUENCE_LENGTH) THEN [ok |-> FALSE, bytes |-> <<>>]
  ELSE [ok |-> TRUE, bytes |-> Uleb128(U64Low(data.len)) \o data.bytes]

\* struct IntentMessage<T> { intent, timestamp_ms, data }
IntentMessage(intent, timestamp_ms, data) ==
  [intent |-> intent, timestamp_ms |-> timestamp_ms, data |-> data]

\* bcs::to_bytes(&IntentMessage<Vec<u8>>): the fields in declaration order.
BcsToBytes(msg) ==
  LET d == BcsVecU8(msg.data)
  IN  IF d.ok
      THEN [ok |-> TRUE,
            bytes |-> BcsIntentScope(msg.intent) \o BcsU64(msg.timestamp_ms) \o d.bytes]
      ELSE [ok |-> FALSE, bytes |-> <<>>]

\* A byte buffer (serde_bytes::ByteBuf) in BCS: serialize_bytes writes the length as
\* ULEB128 and then the bytes; an error when the length exceeds MAX_SEQUENCE_LENGTH.
BcsByteBuf(data) ==
  IF U64Gt(data.len, MAX_SEQUENCE_LENGTH) THEN [ok |-> FALSE, bytes |-> <<>>]
  ELSE [ok |-> TRUE,
        bytes |-> Uleb128(U64Low(data.len)) \o [i \in 1..Len(data.bytes) |-> data.bytes[i]]]

\* The canonical serialization of an IntentMessageBytes: the fields in declaration order.
BcsIntentMessageBytes(m) ==
  LET d == BcsByteBuf(m.data)
  IN  IF d.ok
      THEN [ok |-> TRUE,
            bytes |-> BcsIntentScope(m.intent) \o BcsU64(m.timestamp_ms) \o d.bytes]
      ELSE [ok |-> FALSE, bytes |-> <<>>]

(* ------------------------------- JSON ---------------------------------- *)

\* enum IntentScope through serde_json: a unit variant is written as its name.
JsonIntentScope(scope) == JsonStr(scope.variant)

\* Variant: the echoed envelope is built without the timestamp.
IntentMessageBytesWithoutTimestamp(intent, timestamp_ms, data) ==
  [intent |-> intent, timestamp_ms |-> U64Zero, data |-> data]

\* struct IntentMessageBytes { intent, timestamp_ms, data: ByteBuf }
IntentMessageBytes(intent, timestamp_ms, data) ==
  [intent |-> intent, timestamp_ms |-> timestamp_ms, data |-> data]

JsonIntentMessageBytes(m) ==
  <<"{">> \o JsonField(<<"i", "n", "t", "e", "n", "t">>, JsonIntentScope(m.intent))
  \o <<",">> \o JsonField(<<"t", "i", "m", "e", "s", "t", "a", "m", "p", "_", "m", "s">>, JsonU64(m.timestamp_ms))
  \o <<",">> \o JsonField(<<"d", "a", "t", "a">>, JsonByteBuf(m.data.bytes))
  \o <<"}">>

\* serde_json::to_string(&ProcessedDataResponse { response, signature })
JsonProcessedDataResponse(response, signature) ==
  <<"{">> \o JsonField(<<"r", "e", "s", "p", "o", "n", "s", "e">>, JsonIntentMessageBytes(response))
  \o <<",">> \o JsonField(<<"s", "i", "g", "n", "a", "t", "u", "r", "e">>, JsonStr(signature))
  \o <<"}">>

\* serde_json::to_string(&SignedBcsResponse { intent_message_bcs, signature })
JsonSignedBcsResponse(intent_message_bcs, signature) ==
  <<"{">> \o JsonField(<<"i", "n", "t", "e", "n", "t", "_", "m", "e", "s", "s", "a", "g", "e", "_", "b", "c", "s">>, JsonStr(intent_message_bcs))
  \o <<",">> \o JsonField(<<"s", "i", "g", "n", "a", "t", "u", "r", "e">>, JsonStr(signature))
  \o <<"}">>

(* ------------------------------ inputs --------------------------------- *)

\* The memory payload_ptr / payload_len describe: its length and its bytes.
Payload(b) == [len |-> ToU64(Len(b)), bytes |-> b]

\* A valid region of 2^31 bytes; its bytes are not enumerated.
HugePayload == [len |-> <<0, 0, 2^15, 0>>, bytes |-> <<>>]

Hi == Payload(<<104, 105>>)

Empty == Payload(<<>>)

\* 1700000000000
T1 == <<0, 395, 53221, 26624>>

\* 2^64 - 1
T2 == <<2^16 - 1, 2^16 - 1, 2^16 - 1, 2^16 - 1>>

\* The (payload, timestamp_ms, intent) triples a caller signs: one base triple, the
\* same with an unassigned intent code, one that changes payload and timestamp,
\* and one with a payload longer than MAX_SEQUENCE_LENGTH.
SignInputs ==
  { <<Hi, T1, 0>>, <<Hi, T1, 255>>, <<Empty, T2, 0>>, <<HugePayload, T1, 0>> }

\* What nsm_process_request can answer.
Responses ==
  { [kind |-> "Attestation", body |-> <<132, 68, 161>>],
    [kind |-> "Error", body |-> <<1>>],
    [kind |-> "GetRandom", body |-> <<7, 9>>] }

None == <<>>

Some(x) == <<x>>

(* ------------------------------- state --------------------------------- *)

VARIABLES
  keypairs,   \* the live FfiKeyPair boxes: address -> secret key of `inner`
  cstrs,      \* the live C strings: address -> [text, call], call being the call that returned it
  pc,         \* "idle" between calls, "aborted" once a call has panicked
  nsmOpen     \* the file descriptors of the open driver sessions

vars == <<keypairs, cstrs, pc, nsmOpen>>

\* The record of the call a C string came from.
NoCall ==
  [op |-> "none", key |-> 0, payload |-> Payload(<<>>), timestamp_ms |-> U64Zero,
   intent |-> 0, intent_scope |-> ProcessData, request |-> None, response |-> None,
   drv |-> <<>>, signing_payload |-> <<>>]

Init ==
  /\ keypairs = <<>>
  /\ cstrs = <<>>
  /\ pc = "idle"
  /\ nsmOpen = {}

Live(ptr) == ptr \in DOMAIN keypairs

Remove(f, x) == [y \in DOMAIN f \ {x} |-> f[y]]

\* A panic in an extern "C" function aborts the process: the call never returns and
\* the process's memory and descriptors are gone.
Abort ==
  /\ pc' = "aborted"
  /\ keypairs' = <<>>
  /\ cstrs' = <<>>
  /\ nsmOpen' = {}

(* ------------------------- keypair lifecycle --------------------------- *)

\* The keys of the live keypairs.
LiveKeys == {keypairs[ptr] : ptr \in DOMAIN keypairs}

\* Box::into_raw(Box::new(FfiKeyPair { inner: kp })) with kp freshly drawn from
\* thread_rng: a key no live keypair holds, at an address not in use.
nautilus_generate_ed25519_keypair ==
  /\ pc = "idle"
  /\ \E kp \in Keys \ LiveKeys, ptr \in HandlePtrs \ DOMAIN keypairs :
       keypairs' = (ptr :> kp) @@ keypairs
  /\ UNCHANGED <<cstrs, pc, nsmOpen>>

\* Variant: Box::from_raw without the is_null test; dropping the null box faults.
nautilus_free_keypair_unchecked(ptr) ==
  /\ pc = "idle"
  /\ IF ptr \in DOMAIN keypairs
     THEN keypairs' = Remove(keypairs, ptr) /\ UNCHANGED <<cstrs, pc, nsmOpen>>
     ELSE Abort

\* ptr is NULL or a live keypair pointer.
nautilus_free_keypair(ptr) ==
  /\ pc = "idle"
  /\ IF ptr # NULL
     THEN keypairs' = Remove(keypairs, ptr)
     ELSE UNCHANGED keypairs
  /\ UNCHANGED <<cstrs, pc, nsmOpen>>

(* ------------------------------ C strings ------------------------------ *)

\* CString::new(s): an error when s holds a NUL.
CStringNew(s) == s \in [DOMAIN s -> STRING \ {NUL}]

\* CString::new(s).unwrap().into_raw(): panics on an interior NUL, otherwise a new
\* allocation holding s, and the call returns it; rest is what else the call changes.
to_cstr(s, call, rest) ==
  \E text \in {s} :
    IF ~CStringNew(text)
    THEN Abort
    ELSE /\ pc' = "idle"
         /\ \E p \in StrPtrs \ DOMAIN cstrs :
              cstrs' = (p :> [text |-> text, call |-> call]) @@ cstrs
         /\ rest

\* s is NULL or a live string pointer.
nautilus_free_cstr(s) ==
  /\ pc = "idle"
  /\ IF s # NULL
     THEN cstrs' = Remove(cstrs, s)
     ELSE UNCHANGED cstrs
  /\ UNCHANGED <<keypairs, pc, nsmOpen>>

(* ----------------------------- public key ------------------------------ *)

\* Variant: the key is exported with a 0x prefix.
PublicKeyHexPrefixed(kp) == <<"0", "x">> \o HexEncode(Public(kp))

\* Hex::encode(pk.as_bytes()) for pk = inner.public()
PublicKeyHex(kp) == HexEncode(Public(kp))

\* PublicKeyHex, computed once per keypair.
PublicKeyHexOf == [kp \in Keys |-> PublicKeyHex(kp)]

nautilus_get_public_key_hex(ptr) ==
  /\ pc = "idle"
  /\ Live(ptr)
  /\ to_cstr(PublicKeyHexOf[keypairs[ptr]],
             [NoCall EXCEPT !.op = "public_key_hex", !.key = keypairs[ptr]],
             UNCHANGED <<keypairs, nsmOpen>>)

(* ----------------------------- attestation ----------------------------- *)

\* nsm_init: opens the driver device; the lowest unused descriptor is returned.
NsmInit(open) == CHOOSE fd \in Fds \ open : \A other \in Fds \ open : fd <= other

\* nsm_exit: closes the descriptor.
NsmExit(open, fd) == open \ {fd}

DrvCall(fn, fd) == [fn |-> fn, fd |-> fd]

\* Variant: the request carries no public key.
AttestationRequestWithoutKey(pk) ==
  [kind |-> "Attestation", user_data |-> None, nonce |-> None, public_key |-> None]

\* Request::Attestation { user_data: None, nonce: None, public_key: Some(pk bytes) }
AttestationRequest(pk) ==
  [kind |-> "Attestation", user_data |-> None, nonce |-> None, public_key |-> Some(pk)]

\* Variant: the last byte of the document is dropped.
AttestationArmTruncated(fd, document) ==
  [exits |-> <<fd>>, text |-> HexEncode(SubSeq(document, 1, Len(document) - 1))]

\* Response::Attestation { document } => nsm_exit(fd), then the document as hex.
AttestationArm(fd, document) == [exits |-> <<fd>>, text |-> HexEncode(document)]

\* Variant: the failure arm returns without nsm_exit.
OtherArmWithoutExit(fd, response) == [exits |-> <<>>, text |-> <<>>]

\* _ => nsm_exit(fd), then the empty string.
OtherArm(fd, response) == [exits |-> <<fd>>, text |-> <<>>]

\* match response { ... }
MatchResponse(fd, response) ==
  IF response.kind = "Attestation"
  THEN AttestationArm(fd, response.body)
  ELSE OtherArm(fd, response)

\* MatchResponse, computed once per descriptor and response.
MatchResponseOf == [fd \in Fds, response \in Responses |-> MatchResponse(fd, response)]

\* Public and AttestationRequest, computed once per keypair.
AttestationRequestOf == [kp \in Keys |-> AttestationRequest(Public(kp))]

RECURSIVE NsmExitAll(_, _)
NsmExitAll(open, fds) ==
  IF Len(fds) = 0 THEN open ELSE NsmExitAll(NsmExit(open, Head(fds)), Tail(fds))

\* Variant: the request is issued a second time before the session is closed.
DriverCallsRetried(fd, exits) ==
  <<DrvCall("nsm_init", fd), DrvCall("nsm_process_request", fd),
    DrvCall("nsm_process_request", fd)>>
  \o [i \in 1..Len(exits) |-> DrvCall("nsm_exit", exits[i])]

\* The driver calls of one nautilus_get_attestation call, in order: nsm_init,
\* nsm_process_request, and the nsm_exit calls of the arm taken.
DriverCalls(fd, exits) ==
  <<DrvCall("nsm_init", fd), DrvCall("nsm_process_request", fd)>>
  \o [i \in 1..Len(exits) |-> DrvCall("nsm_exit", exits[i])]

\* response is what the driver answers to the request.
nautilus_get_attestation(ptr, response) ==
  /\ pc = "idle"
  /\ Live(ptr)
  /\ Fds \ nsmOpen # {}
  /\ LET fd == NsmInit(nsmOpen)
         request == AttestationRequestOf[keypairs[ptr]]
         arm == MatchResponseOf[fd, response]
     IN  to_cstr(arm.text,
                 [NoCall EXCEPT !.op = "attestation", !.key = keypairs[ptr],
                                !.request = Some(request), !.response = Some(response),
                                !.drv = DriverCalls(fd, arm.exits)],
                 /\ nsmOpen' = NsmExitAll(nsmOpen \cup {fd}, arm.exits)
                 /\ UNCHANGED keypairs)

(* ------------------------------- signing ------------------------------- *)

\* Variant: a code other than 0 resolves to a second variant.
IntentScopeOfDistinct(intent) ==
  IF intent = 0 THEN ProcessData
  ELSE [variant |-> <<"U", "n", "k", "n", "o", "w", "n">>, index |-> 1]

\* match intent { 0 => IntentScope::ProcessData, _ => IntentScope::ProcessData }
IntentScopeOf(intent) == IF intent = 0 THEN ProcessData ELSE ProcessData

\* Variant: the structured entry point serializes the envelope without the payload.
SigningPayloadJsonWithoutData(intent_scope, timestamp_ms, payload) ==
  BcsToBytes(IntentMessage(intent_scope, timestamp_ms, Empty))

\* bcs::to_bytes(&IntentMessage { intent: intent_scope, timestamp_ms, data: payload })
SigningPayloadJson(intent_scope, timestamp_ms, payload) ==
  BcsToBytes(IntentMessage(intent_scope, timestamp_ms, payload))

\* Variant: a randomized signature; the salt is drawn from what is allocated.
SignatureJsonSalted(kp, signing_payload) ==
  Sign(kp, signing_payload \o <<Cardinality(DOMAIN cstrs)>>)

\* (&*ptr).inner.sign(&signing_payload)
SignatureJson(kp, signing_payload) == Sign(kp, signing_payload)

\* ProcessedDataResponse { response: intent_msg, signature: Hex::encode(sig) } as JSON
ResponseJson(intent_scope, timestamp_ms, payload, sig) ==
  JsonProcessedDataResponse(IntentMessageBytes(intent_scope, timestamp_ms, payload),
                            HexEncode(sig))

\* What nautilus_sign_intent_message_json computes from the keypair and its
\* arguments: ok is FALSE when .expect("bcs serialize") panics.
SignJson(kp, payload, timestamp_ms, intent) ==
  LET intent_scope == IntentScopeOf(intent)
      ser == SigningPayloadJson(intent_scope, timestamp_ms, payload)
      sig == SignatureJson(kp, ser.bytes)
  IN  IF ~ser.ok
      THEN [ok |-> FALSE, text |-> <<>>, call |-> NoCall]
      ELSE [ok |-> TRUE,
            text |-> ResponseJson(intent_scope, timestamp_ms, payload, sig),
            call |-> [NoCall EXCEPT !.op = "sign_json", !.key = kp,
                                    !.payload = payload, !.timestamp_ms = timestamp_ms,
                                    !.intent = intent, !.intent_scope = intent_scope,
                                    !.signing_payload = ser.bytes]]

\* SignJson, computed once per keypair and input.
SignJsonOf == [kp \in Keys, in \in SignInputs |-> SignJson(kp, in[1], in[2], in[3])]

nautilus_sign_intent_message_json(ptr, in) ==
  /\ pc = "idle"
  /\ Live(ptr)
  /\ LET r == SignJsonOf[keypairs[ptr], in]
     IN  IF ~r.ok
         THEN Abort
         ELSE to_cstr(r.text, r.call, UNCHANGED <<keypairs, nsmOpen>>)

\* bcs::to_bytes(&intent_msg) with intent_msg = IntentMessage { intent, timestamp_ms, data }
SigningPayloadBcs(intent_scope, timestamp_ms, payload) ==
  BcsToBytes(IntentMessage(intent_scope, timestamp_ms, payload))

\* Variant: the flat entry point signs the bytes after the intent tag.
SignatureBcsOverTail(kp, signing_payload) == Sign(kp, Tail(signing_payload))

\* (&*ptr).inner.sign(&signing_payload)
SignatureBcs(kp, signing_payload) == Sign(kp, signing_payload)

\* SignedBcsResponse { intent_message_bcs: Hex::encode(signing_payload), signature } as JSON
ResponseBcs(signing_payload, sig) ==
  JsonSignedBcsResponse(HexEncode(signing_payload), HexEncode(sig))

\* What nautilus_sign_intent_message_bcs computes from the keypair and its
\* arguments: ok is FALSE when .expect("bcs serialize") panics.
SignBcs(kp, payload, timestamp_ms, intent) ==
  LET intent_scope == IntentScopeOf(intent)
      ser == SigningPayloadBcs(intent_scope, timestamp_ms, payload)
      sig == SignatureBcs(kp, ser.bytes)
  IN  IF ~ser.ok
      THEN [ok |-> FALSE, text |-> <<>>, call |-> NoCall]
      ELSE [ok |-> TRUE,
            text |-> ResponseBcs(ser.bytes, sig),
            call |-> [NoCall EXCEPT !.op = "sign_bcs", !.key = kp,
                                    !.payload = payload, !.timestamp_ms = timestamp_ms,
                                    !.intent = intent, !.intent_scope = intent_scope,
                                    !.signing_payload = ser.bytes]]

\* SignBcs, computed once per keypair and input.
SignBcsOf == [kp \in Keys, in \in SignInputs |-> SignBcs(kp, in[1], in[2], in[3])]

nautilus_sign_intent_message_bcs(ptr, in) ==
  /\ pc = "idle"
  /\ Live(ptr)
  /\ LET r == SignBcsOf[keypairs[ptr], in]
     IN  IF ~r.ok
         THEN Abort
         ELSE to_cstr(r.text, r.call, UNCHANGED <<keypairs, nsmOpen>>)

(* --------------------------- specification ----------------------------- *)

Next ==
  \/ nautilus_generate_ed25519_keypair
  \/ \E ptr \in {NULL} \cup DOMAIN keypairs : nautilus_free_keypair(ptr)
  \/ \E s \in {NULL} \cup DOMAIN cstrs : nautilus_free_cstr(s)
  \/ \E ptr \in DOMAIN keypairs : nautilus_get_public_key_hex(ptr)
  \/ \E ptr \in DOMAIN keypairs, response \in Responses :
       nautilus_get_attestation(ptr, response)
  \/ \E ptr \in DOMAIN keypairs, in \in SignInputs :
       nautilus_sign_intent_message_json(ptr, in)
  \/ \E ptr \in DOMAIN keypairs, in \in SignInputs :
       nautilus_sign_intent_message_bcs(ptr, in)

Spec == Init /\ [][Next]_vars

(* ------------------------------ properties ----------------------------- *)

\* The records of the live C strings, and those a given operation returned.
Cells == {cstrs[s] : s \in DOMAIN cstrs}

CellsOf(op) == {c \in Cells : c.call.op = op}

\* C1: every nautilus_get_attestation call closes the session nsm_init opened exactly
\* once before it returns, whatever the driver answered, so no driver session is open
\* between calls.
C1_SessionClosedOnEveryPath ==
  /\ nsmOpen = {}
  /\ \A c \in CellsOf("attestation") :
       LET d == c.call.drv
       IN  /\ d[1].fn = "nsm_init"
           /\ Cardinality({i \in DOMAIN d : d[i] = DrvCall("nsm_exit", d[1].fd)}) = 1
           /\ Cardinality({i \in DOMAIN d : d[i].fn = "nsm_exit"}) = 1

\* Both an Attestation answer and another answer have been handled.
C1_Witness ==
  /\ pc = "idle"
  /\ \E a, b \in CellsOf("attestation") :
       /\ a.call.response[1].kind = "Attestation"
       /\ b.call.response[1].kind = "Error"

\* C2: nautilus_get_attestation returns the empty string for every response that is
\* not Attestation, and the hex of the whole document for an Attestation response.
C2_EvidenceOrNothing ==
  \A c \in CellsOf("attestation") :
    LET r == c.call.response[1]
    IN  c.text = IF r.kind = "Attestation" THEN HexEncode(r.body) ELSE <<>>

\* A document 84 44 a1 was returned whole, and a GetRandom answer gave "".
C2_Witness ==
  \E a, b \in CellsOf("attestation") :
    /\ a.call.response[1].kind = "Attestation"
    /\ a.text = <<"8", "4", "4", "4", "a", "1">>
    /\ b.call.response[1].kind = "GetRandom"
    /\ b.text = <<>>

\* C3: the public key embedded in the attestation request equals the key
\* nautilus_get_public_key_hex exports for the same keypair, and two attestation
\* requests for the same keypair embed the identical key.
C3_AttestedKeyIsExportedKey ==
  /\ \A a \in CellsOf("attestation"), p \in CellsOf("public_key_hex") :
       a.call.key = p.call.key =>
         /\ Len(a.call.request[1].public_key) = 1
         /\ HexEncode(a.call.request[1].public_key[1]) = p.text
  /\ \A a, b \in CellsOf("attestation") :
       a.call.key = b.call.key =>
         a.call.request[1].public_key = b.call.request[1].public_key

\* An attestation and a public-key export of one keypair are both at hand.
C3_Witness ==
  \E a \in CellsOf("attestation"), p \in CellsOf("public_key_hex") :
    a.call.key = p.call.key /\ Len(p.text) = 64

\* Parsing what the entry points return.
HexVal(ch) == CHOOSE v \in 0..15 : HexDigits[v + 1] = ch

HexDecode(t) ==
  [i \in 1..(Len(t) \div 2) |-> HexVal(t[2 * i - 1]) * 16 + HexVal(t[2 * i])]

SignatureKey == <<"\"", "s", "i", "g", "n", "a", "t", "u", "r", "e", "\"", ":", "\"">>

BcsKey == <<"{", "\"", "i", "n", "t", "e", "n", "t", "_", "m", "e", "s", "s", "a", "g", "e", "_", "b", "c", "s", "\"", ":", "\"">>

\* The last field of both results: ,"signature":"<128 hex digits>"}
HasSignatureField(text) ==
  /\ Len(text) >= Len(SignatureKey) + 130
  /\ SubSeq(text, Len(text) - 129 - Len(SignatureKey), Len(text) - 130) = SignatureKey
  /\ SubSeq(text, Len(text) - 1, Len(text)) = <<"\"", "}">>

SignatureField(text) == SubSeq(text, Len(text) - 129, Len(text) - 2)

\* The first field of the flat result: {"intent_message_bcs":"<hex>",
HasIntentMessageBcsField(text) ==
  /\ Len(text) >= Len(BcsKey) + 145
  /\ SubSeq(text, 1, Len(BcsKey)) = BcsKey
  /\ SubSeq(text, Len(text) - 144, Len(text) - 143) = <<"\"", ",">>

IntentMessageBcsField(text) == SubSeq(text, Len(BcsKey) + 1, Len(text) - 145)

SignCells == CellsOf("sign_json") \cup CellsOf("sign_bcs")

SameInputs(a, b) ==
  /\ a.call.key = b.call.key
  /\ a.call.payload = b.call.payload
  /\ a.call.timestamp_ms = b.call.timestamp_ms
  /\ a.call.intent = b.call.intent

\* C4: for the same keypair, payload, timestamp_ms and intent code, the structured
\* and the flat entry point sign the same canonical bytes and return the same hex
\* signature.
C4_BothEntryPointsSignSameBytes ==
  \A j \in CellsOf("sign_json"), b \in CellsOf("sign_bcs") :
    SameInputs(j, b) =>
      /\ j.call.signing_payload = b.call.signing_payload
      /\ HasSignatureField(j.text) /\ HasSignatureField(b.text)
      /\ SignatureField(j.text) = SignatureField(b.text)

\* Both entry points have signed the two-byte payload with the same inputs.
C4_Witness ==
  \E j \in CellsOf("sign_json"), b \in CellsOf("sign_bcs") :
    SameInputs(j, b) /\ j.call.payload = Hi

\* Ed25519 verification: sig is the signature of msg under the keypair of pk.
Verify(pk, msg, sig) == \E sk \in Keys : Public(sk) = pk /\ Sign(sk, msg) = sig

\* The canonical serialization of { intent: ProcessData, timestamp_ms, data: payload }.
Canonical(call) == BcsToBytes(IntentMessage(ProcessData, call.timestamp_ms, call.payload)).bytes

\* C5: the signature either entry point returns verifies against the exported public
\* key of the keypair and the canonical serialization of the intent message; for the
\* flat entry point, against exactly the bytes returned in intent_message_bcs.
C5_SignatureVerifies ==
  \A c \in SignCells, p \in CellsOf("public_key_hex") :
    c.call.key = p.call.key =>
      /\ HasSignatureField(c.text)
      /\ Verify(HexDecode(p.text), Canonical(c.call), HexDecode(SignatureField(c.text)))
      /\ c.call.op = "sign_bcs" =>
           /\ HasIntentMessageBcsField(c.text)
           /\ Verify(HexDecode(p.text), HexDecode(IntentMessageBcsField(c.text)),
                     HexDecode(SignatureField(c.text)))

\* A flat result over 00 | 1700000000000 (LE) | 02 68 69 and the export of its key.
C5_Witness ==
  \E c \in CellsOf("sign_bcs"), p \in CellsOf("public_key_hex") :
    /\ c.call.key = p.call.key
    /\ HexDecode(IntentMessageBcsField(c.text))
         = <<0, 0, 104, 229, 207, 139, 1, 0, 0, 2, 104, 105>>

\* C9: every intent code resolves to ProcessData, and the canonical bytes and the
\* returned text (signature included) are those intent code 0 gives for the same
\* entry point, keypair, payload and timestamp.
C9_EveryCodeIsProcessData ==
  /\ \A c \in SignCells : c.call.intent_scope = ProcessData
  /\ \A a, b \in SignCells :
       ( /\ a.call.op = b.call.op
         /\ a.call.key = b.call.key
         /\ a.call.payload = b.call.payload
         /\ a.call.timestamp_ms = b.call.timestamp_ms
         /\ b.call.intent = 0 ) =>
         /\ a.call.signing_payload = b.call.signing_payload
         /\ a.text = b.text

\* One entry point has signed the same payload and timestamp with codes 255 and 0.
C9_Witness ==
  \E a, b \in SignCells :
    /\ a.call.op = b.call.op
    /\ a.call.key = b.call.key
    /\ a.call.payload = b.call.payload
    /\ a.call.timestamp_ms = b.call.timestamp_ms
    /\ a.call.intent = 255
    /\ b.call.intent = 0

\* pat occurs in text.
Contains(text, pat) ==
  \E i \in 1..(Len(text) - Len(pat) + 1) : SubSeq(text, i, i + Len(pat) - 1) = pat

ContainsField(text, field) ==
  Contains(text, field \o <<",">>) \/ Contains(text, field \o <<"}">>)

\* C6: the structured result for intent code 0 and timestamp T holds "intent":0 and
\* "timestamp_ms":T.
C6_IntentEchoedAsNumber ==
  \A j \in CellsOf("sign_json") :
    j.call.intent = 0 =>
      /\ ContainsField(j.text, JsonField(<<"i", "n", "t", "e", "n", "t">>, <<"0">>))
      /\ ContainsField(j.text, JsonField(<<"t", "i", "m", "e", "s", "t", "a", "m", "p", "_", "m", "s">>, JsonU64(j.call.timestamp_ms)))

Base64Alphabet ==
  <<"A", "B", "C", "D", "E", "F", "G", "H", "I", "J", "K", "L", "M", "N", "O", "P",
     "Q", "R", "S", "T", "U", "V", "W", "X", "Y", "Z", "a", "b", "c", "d", "e", "f",
     "g", "h", "i", "j", "k", "l", "m", "n", "o", "p", "q", "r", "s", "t", "u", "v",
     "w", "x", "y", "z", "0", "1", "2", "3", "4", "5", "6", "7", "8", "9", "+", "/">>

RECURSIVE Base64(_)
\* Standard base64 with padding.
Base64(b) ==
  IF Len(b) = 0 THEN <<>>
  ELSE IF Len(b) = 1
  THEN <<Base64Alphabet[(b[1] \div 4) + 1], Base64Alphabet[(b[1] % 4) * 16 + 1], "=", "=">>
  ELSE IF Len(b) = 2
  THEN <<Base64Alphabet[(b[1] \div 4) + 1], Base64Alphabet[(b[1] % 4) * 16 + (b[2] \div 16) + 1],
         Base64Alphabet[(b[2] % 16) * 4 + 1], "=">>
  ELSE <<Base64Alphabet[(b[1] \div 4) + 1], Base64Alphabet[(b[1] % 4) * 16 + (b[2] \div 16) + 1],
         Base64Alphabet[(b[2] % 16) * 4 + (b[3] \div 64) + 1], Base64Alphabet[(b[3] % 64) + 1]>>
       \o Base64(SubSeq(b, 4, Len(b)))

\* C7: the data field of the structured result is the base64 text of the payload.
C7_DataEchoedAsBase64 ==
  \A j \in CellsOf("sign_json") :
    ContainsField(j.text, JsonField(<<"d", "a", "t", "a">>, JsonStr(Base64(j.call.payload.bytes))))

\* C8: nautilus_free_keypair(NULL) and nautilus_free_cstr(NULL) do not fault and leave
\* every live keypair and every live string as they were.
C8_NullFreeIsNoOp ==
  [][ (nautilus_free_keypair(NULL) \/ nautilus_free_cstr(NULL)) =>
        (pc' = "idle" /\ keypairs' = keypairs /\ cstrs' = cstrs) ]_vars

\* A keypair and a string are live where both null frees can be called.
C8_Witness ==
  /\ DOMAIN keypairs # {}
  /\ DOMAIN cstrs # {}
  /\ ENABLED nautilus_free_keypair(NULL)
  /\ ENABLED nautilus_free_cstr(NULL)

\* C10: no boundary operation called on valid inputs panics or aborts.
C10_NoPanic == pc # "aborted"

\* A step that is a call of one of the four string-returning operations.
StringCall ==
  \E ptr \in DOMAIN keypairs :
    \/ nautilus_get_public_key_hex(ptr)
    \/ \E response \in Responses : nautilus_get_attestation(ptr, response)
    \/ \E in \in SignInputs : nautilus_sign_intent_message_json(ptr, in)
    \/ \E in \in SignInputs : nautilus_sign_intent_message_bcs(ptr, in)

\* The step adds exactly one string, at an address no live string has, and leaves
\* every live string and every keypair as it was.
AllocatesOneString ==
  /\ DOMAIN cstrs \subseteq DOMAIN cstrs'
  /\ Cardinality(DOMAIN cstrs' \ DOMAIN cstrs) = 1
  /\ \A q \in DOMAIN cstrs : cstrs'[q] = cstrs[q]
  /\ keypairs' = keypairs

\* The release functions release exactly what they are given.
ReleasesExactlyTheArgument ==
  /\ \A s \in DOMAIN cstrs :
       nautilus_free_cstr(s) => (cstrs' = Remove(cstrs, s) /\ keypairs' = keypairs)
  /\ \A ptr \in DOMAIN keypairs :
       nautilus_free_keypair(ptr) => (keypairs' = Remove(keypairs, ptr) /\ cstrs' = cstrs)

\* C11: every call of a string-returning operation allocates exactly one new string,
\* distinct from every live string, and nautilus_free_cstr / nautilus_free_keypair
\* release exactly their argument, so that a caller who frees each result once and
\* the keypair once leaves nothing allocated.
C11_OneAllocationOneRelease ==
  [][ (StringCall => AllocatesOneString) /\ ReleasesExactlyTheArgument ]_vars

\* C12: nautilus_get_public_key_hex on a live handle returns 64 lowercase hex digits,
\* without prefix, that encode the 32-byte public key of the handle's keypair, and
\* every call for that handle returns the same text.
C12_PublicKeyHexIsStable ==
  /\ \A p \in CellsOf("public_key_hex") :
       /\ Len(p.text) = 64
       /\ \A i \in 1..Len(p.text) : \E v \in 1..16 : HexDigits[v] = p.text[i]
       /\ Len(Public(p.call.key)) = 32
       /\ HexDecode(p.text) = Public(p.call.key)
  /\ \A p, q \in CellsOf("public_key_hex") :
       p.call.key = q.call.key => p.text = q.text

\* The key of a live handle has been exported twice and both exports are at hand.
C12_Witness ==
  \E s, t \in DOMAIN cstrs :
    /\ s # t
    /\ cstrs[s].call.op = "public_key_hex"
    /\ cstrs[t].call.op = "public_key_hex"
    /\ cstrs[s].call.key = cstrs[t].call.key
    /\ cstrs[s].call.key \in LiveKeys

\* C13: the public-key, attestation and signing operations leave every handle live
\* and holding the keypair it was created with; a handle's life ends only by
\* nautilus_free_keypair on that handle.
C13_OnlyFreeEndsAHandle ==
  [][ /\ StringCall => keypairs' = keypairs
      /\ \A ptr \in DOMAIN keypairs :
           (ptr \notin DOMAIN keypairs' \/ keypairs'[ptr] # keypairs[ptr])
             => nautilus_free_keypair(ptr) ]_vars

\* C14: in the structured entry point the signed bytes are the canonical serialization
\* of the envelope echoed in the response: the text is the JSON of that envelope, and
\* the signature is over the envelope's canonical bytes.
C14_SignedBytesAreEchoedEnvelope ==
  \A j \in CellsOf("sign_json") :
    LET envelope == [intent |-> j.call.intent_scope, timestamp_ms |-> j.call.timestamp_ms,
                     data |-> j.call.payload]
        echoed == BcsIntentMessageBytes(envelope)
    IN  /\ HasSignatureField(j.text)
        /\ j.text = JsonProcessedDataResponse(envelope, SignatureField(j.text))
        /\ echoed.ok
        /\ j.call.signing_payload = echoed.bytes
        /\ HexDecode(SignatureField(j.text)) = Sign(j.call.key, echoed.bytes)

\* Structured results for the two-byte payload at 1700000000000 and for the empty
\* payload at 2^64 - 1 are both at hand.
C14_Witness ==
  \E a, b \in CellsOf("sign_json") :
    /\ a.call.payload = Hi /\ a.call.timestamp_ms = T1
    /\ b.call.payload = Empty /\ b.call.timestamp_ms = T2

RECURSIVE Uleb128Read(_, _)
\* Reads a ULEB128 number of b that starts at position i.
Uleb128Read(b, i) ==
  IF i > Len(b) THEN [ok |-> FALSE, value |-> 0, next |-> i]
  ELSE IF b[i] < 128 THEN [ok |-> TRUE, value |-> b[i], next |-> i + 1]
  ELSE LET r == Uleb128Read(b, i + 1)
       IN  [ok |-> r.ok, value |-> (b[i] - 128) + 128 * r.value, next |-> r.next]

\* The u64 whose eight little-endian bytes start at position i of b.
U64FromLe(b, i) ==
  <<b[i + 7] * 256 + b[i + 6], b[i + 5] * 256 + b[i + 4],
    b[i + 3] * 256 + b[i + 2], b[i + 1] * 256 + b[i]>>

\* Parsing canonical bytes as an IntentMessage over a byte vector: the variant index,
\* eight bytes of timestamp, the length and as many bytes, and nothing after them.
BcsFromBytes(b) ==
  LET tag == Uleb128Read(b, 1)
      len == Uleb128Read(b, tag.next + 8)
      bad == [ok |-> FALSE, value |-> <<>>]
  IN  IF ~tag.ok \/ tag.value # ProcessData.index \/ Len(b) < tag.next + 8 THEN bad
      ELSE IF ~len.ok \/ Len(b) # len.next - 1 + len.value THEN bad
      ELSE [ok |-> TRUE,
            value |-> [intent |-> ProcessData,
                       timestamp_ms |-> U64FromLe(b, tag.next),
                       data |-> Payload(SubSeq(b, len.next, Len(b)))]]

\* C15: the bytes the flat entry point returns as intent_message_bcs parse back to the
\* envelope (ProcessData, timestamp_ms, payload), which is the envelope the structured
\* entry point echoes for the same inputs, and calls that differ in timestamp_ms or
\* payload return different canonical bytes.
C15_CanonicalBytesRoundTrip ==
  /\ \A b \in CellsOf("sign_bcs") :
       /\ HasIntentMessageBcsField(b.text)
       /\ LET parsed == BcsFromBytes(HexDecode(IntentMessageBcsField(b.text)))
          IN  /\ parsed.ok
              /\ parsed.value = [intent |-> ProcessData,
                                 timestamp_ms |-> b.call.timestamp_ms,
                                 data |-> b.call.payload]
              /\ \A j \in CellsOf("sign_json") :
                   SameInputs(j, b) =>
                     j.text = JsonProcessedDataResponse(parsed.value, SignatureField(j.text))
  /\ \A a, b \in CellsOf("sign_bcs") :
       (a.call.timestamp_ms # b.call.timestamp_ms \/ a.call.payload # b.call.payload)
         => IntentMessageBcsField(a.text) # IntentMessageBcsField(b.text)

\* Two flat results that differ in timestamp and payload are at hand.
C15_Witness ==
  \E a, b \in CellsOf("sign_bcs") :
    /\ a.call.timestamp_ms = T1 /\ a.call.payload = Hi
    /\ b.call.timestamp_ms = T2 /\ b.call.payload = Empty
    /\ BcsFromBytes(HexDecode(IntentMessageBcsField(a.text))).ok

\* C16: two calls of the same signing entry point with the same keypair, payload,
\* timestamp_ms and intent code return the same text, over the same canonical bytes,
\* whatever ran between them.
C16_SigningIsDeterministic ==
  \A s, t \in DOMAIN cstrs :
    ( /\ cstrs[s].call.op \in {"sign_json", "sign_bcs"}
      /\ cstrs[s].call.op = cstrs[t].call.op
      /\ SameInputs(cstrs[s], cstrs[t]) ) =>
      /\ cstrs[s].text = cstrs[t].text
      /\ cstrs[s].call.signing_payload = cstrs[t].call.signing_payload

\* The results of two separate calls of one entry point with the same inputs are at hand.
C16_Witness ==
  \E s, t \in DOMAIN cstrs :
    /\ s # t
    /\ cstrs[s].call.op = "sign_json"
    /\ cstrs[t].call.op = "sign_json"
    /\ SameInputs(cstrs[s], cstrs[t])
    /\ cstrs[s].call.payload = Hi

\* C17: every nautilus_get_attestation call opens a session, issues one attestation
\* request on it and closes it, in that order, also when the same keypair was
\* attested before; no other operation calls the driver.
C17_OneDriverRequestPerAttestation ==
  \A c \in Cells :
    IF c.call.op = "attestation"
    THEN /\ \E fd \in Fds :
              c.call.drv = <<DrvCall("nsm_init", fd), DrvCall("nsm_process_request", fd),
                             DrvCall("nsm_exit", fd)>>
         /\ Len(c.call.request) = 1
         /\ c.call.request[1].kind = "Attestation"
    ELSE c.call.drv = <<>> /\ c.call.request = None

\* Two attestations of one keypair, both answered with a document, and each with its
\* own driver calls.
C17_Witness ==
  \E s, t \in DOMAIN cstrs :
    /\ s # t
    /\ cstrs[s].call.op = "attestation" /\ cstrs[t].call.op = "attestation"
    /\ cstrs[s].call.key = cstrs[t].call.key
    /\ cstrs[s].call.response[1].kind = "Attestation"
    /\ cstrs[t].call.response[1].kind = "Attestation"
    /\ Len(cstrs[t].call.drv) = 3

\* A step that is a call of an operation on handle ptr, its destruction included.
CallOn(ptr) ==
  \/ nautilus_free_keypair(ptr)
  \/ nautilus_get_public_key_hex(ptr)
  \/ \E response \in Responses : nautilus_get_attestation(ptr, response)
  \/ \E in \in SignInputs : nautilus_sign_intent_message_json(ptr, in)
  \/ \E in \in SignInputs : nautilus_sign_intent_message_bcs(ptr, in)

\* C18: nautilus_generate_ed25519_keypair returns a handle that differs from every live
\* handle and leaves those as they were, and a call on a live handle A leaves every
\* other live handle B live and with its keypair, hence with the public key it exports
\* and the signatures it gives.
C18_HandlesAreIsolated ==
  [][ /\ nautilus_generate_ed25519_keypair =>
           /\ DOMAIN keypairs \subseteq DOMAIN keypairs'
           /\ Cardinality(DOMAIN keypairs' \ DOMAIN keypairs) = 1
           /\ \A B \in DOMAIN keypairs : keypairs'[B] = keypairs[B]
      /\ \A A, B \in DOMAIN keypairs :
           (A # B /\ CallOn(A)) =>
             /\ B \in DOMAIN keypairs'
             /\ keypairs'[B] = keypairs[B]
             /\ PublicKeyHexOf[keypairs'[B]] = PublicKeyHexOf[keypairs[B]]
             /\ \A in \in SignInputs :
                  /\ SignJsonOf[keypairs'[B], in] = SignJsonOf[keypairs[B], in]
                  /\ SignBcsOf[keypairs'[B], in] = SignBcsOf[keypairs[B], in] ]_vars

====
